---- MODULE Spec2Model ----
(***************************************************************************)
(* gistrun: the exec, hash and print commands and the functions they call *)
(* (argument validation, token lookup, fetch_gist, hash_gist/compare_hash, *)
(* the launcher mapping, validate_commands, execute_files/execute_file and *)
(* generate_execution_report), from src/src/gistrun/cli/__init__.py.       *)
(*                                                                         *)
(* Text is a sequence of one-character strings, so that str.lower(), the   *)
(* f-string labels and os.path.splitext are computed, not assumed.         *)
(* A Python sequence value is a record [type, items]: click hands the      *)
(* repeated --run option to exec as a tuple, everything else is a list.    *)
(* Elapsed times are integers in milliseconds.                             *)
(***************************************************************************)
EXTENDS Integers, Sequences, FiniteSets, TLC

VARIABLES
    entry,        \* which entry point is being run
    files,        \* sequence of file names (the fetched gist files)
    commands,     \* the commands argument: [type, items]
    dry_run,      \* --dry-run / the dry_run parameter
    yes,          \* --yes
    report,       \* --report
    pc,           \* position in the running entry point
    plan,         \* value returned by validate_commands / passed to execute_files
    idx,          \* position of the zip loop of execute_files (1-based)
    results,      \* the results list of execute_files
    child,        \* the running child process, or NoChild
    spawned,      \* every subprocess.run call made so far, in order
    tempFiles,    \* temporary files that exist on disk
    tempCreated,  \* number of temporary files created so far
    prompts,      \* every click.confirm call made so far, in order
    echoed,       \* every click.echo message so far, in order
    raised,       \* the exception that left the entry point, or "none"
    message,      \* the message of the exception last raised, or <<>>
    arg,          \* the USERNAME/GIST_NAME argument of a command
    username,     \* the validated user name / the username parameter
    gist_name,    \* the validated gist name / the gist_name parameter
    token,        \* the token used for remote calls
    remote,       \* the owner's gists on the remote service, in listing order
    page,         \* the page counter of fetch_gist
    gists,        \* the listing last returned to fetch_gist
    gist,         \* the gist returned by fetch_gist, or NoGist
    hash,         \* --hash / the expected_hash parameter
    hash_func,    \* --hash-func / the hash_func parameter
    actualHash,   \* the digest last returned by hash_gist, or NoHash
    hashed,       \* the file contents hash_gist fetched, in file order
    contents,     \* the file contents of `files`, as fetched by get_files
    requests,     \* the set of requests sent to the remote service
    ext,          \* the key looked up in the launcher mapping
    lookup,       \* the result of that lookup
    token_arg,    \* --token as given on the command line, or None
    environ,      \* the environment variables of the process
    report_content \* the text returned by generate_execution_report

remoteVars == <<arg, username, gist_name, token, remote, page, gists, gist,
                hash, hash_func, actualHash, hashed, contents, requests, ext, lookup,
                token_arg, environ>>

vars == <<entry, files, commands, dry_run, yes, report, pc, plan, idx, results,
          child, spawned, tempFiles, tempCreated, prompts, echoed, raised,
          message, remoteVars, report_content>>

----------------------------------------------------------------------------
(* Bounds *)

MaxFiles == 2
MaxCommands == 2
MaxPage == 3

----------------------------------------------------------------------------
(* Text *)

UpperChars == <<"A", "B", "C", "D", "E", "F", "G", "H", "I", "J", "K", "L", "M",
                "N", "O", "P", "Q", "R", "S", "T", "U", "V", "W", "X", "Y", "Z">>
LowerChars == <<"a", "b", "c", "d", "e", "f", "g", "h", "i", "j", "k", "l", "m",
                "n", "o", "p", "q", "r", "s", "t", "u", "v", "w", "x", "y", "z">>

\* str.lower() on one character
LowerChar(c) ==
    IF \E k \in 1..Len(UpperChars) : UpperChars[k] = c
    THEN LowerChars[CHOOSE k \in 1..Len(UpperChars) : UpperChars[k] = c]
    ELSE c

\* str.lower()
Lower(s) == [k \in 1..Len(s) |-> LowerChar(s[k])]

SKIP == <<"s", "k", "i", "p">>
Py_python == <<"p", "y", "t", "h", "o", "n">>

\* os.path.splitext(p)[1]: the text from the last dot on, unless that dot is
\* a leading dot of the last path component
LastIndexOf(p, c) ==
    IF \E k \in 1..Len(p) : p[k] = c
    THEN CHOOSE k \in 1..Len(p) : p[k] = c /\ \A j \in (k+1)..Len(p) : p[j] # c
    ELSE 0

SplitExt(p) ==
    LET sepIndex == LastIndexOf(p, "/")
        dotIndex == LastIndexOf(p, ".")
    IN  IF dotIndex > sepIndex
           /\ \E k \in (sepIndex + 1)..(dotIndex - 1) : p[k] # "."
        THEN SubSeq(p, dotIndex, Len(p))
        ELSE <<>>

----------------------------------------------------------------------------
(* execute_mapping *)

MappingTable ==
    <<
       <<<<".", "a", "s", "m">>, <<"n", "a", "s", "m">>>>,
       <<<<".", "a", "w", "k">>, <<"a", "w", "k", " ", "-", "f">>>>,
       <<<<".", "b", "a", "t">>, <<"c", "m", "d", " ", "/", "c">>>>,
       <<<<".", "c">>, <<"g", "c", "c">>>>,
       <<<<".", "c", "l", "j">>, <<"c", "l", "o", "j", "u", "r", "e">>>>,
       <<<<".", "c", "p", "p">>, <<"g", "+", "+">>>>,
       <<<<".", "c", "s">>, <<"d", "o", "t", "n", "e", "t", " ", "s", "c", "r", "i", "p", "t">>>>,
       <<<<".", "c", "s", "s">>, <<"s", "k", "i", "p">>>>,
       <<<<".", "d", "a", "r", "t">>, <<"d", "a", "r", "t">>>>,
       <<<<".", "e", "r", "l">>, <<"e", "s", "c", "r", "i", "p", "t">>>>,
       <<<<".", "f", "s", "x">>, <<"d", "o", "t", "n", "e", "t", " ", "f", "s", "i">>>>,
       <<<<".", "g", "o">>, <<"g", "o", " ", "r", "u", "n">>>>,
       <<<<".", "g", "r", "o", "o", "v", "y">>, <<"g", "r", "o", "o", "v", "y">>>>,
       <<<<".", "h">>, <<"s", "k", "i", "p">>>>,
       <<<<".", "h", "p", "p">>, <<"s", "k", "i", "p">>>>,
       <<<<".", "h", "s">>, <<"r", "u", "n", "h", "a", "s", "k", "e", "l", "l">>>>,
       <<<<".", "h", "t", "m", "l">>, <<"s", "k", "i", "p">>>>,
       <<<<".", "j", "a", "v", "a">>, <<"j", "a", "v", "a", "c">>>>,
       <<<<".", "j", "s">>, <<"n", "o", "d", "e">>>>,
       <<<<".", "j", "s", "o", "n">>, <<"s", "k", "i", "p">>>>,
       <<<<".", "j", "s", "x">>, <<"n", "o", "d", "e">>>>,
       <<<<".", "k", "t">>, <<"k", "o", "t", "l", "i", "n">>>>,
       <<<<".", "l", "e", "s", "s">>, <<"s", "k", "i", "p">>>>,
       <<<<".", "l", "u", "a">>, <<"l", "u", "a">>>>,
       <<<<".", "m">>, <<"o", "c", "t", "a", "v", "e">>>>,
       <<<<".", "m", "d">>, <<"s", "k", "i", "p">>>>,
       <<<<".", "m", "l">>, <<"o", "c", "a", "m", "l">>>>,
       <<<<".", "n", "i", "m">>, <<"n", "i", "m", " ", "c", "o", "m", "p", "i", "l", "e", " ", "-", "-", "r", "u", "n">>>>,
       <<<<".", "p">>, <<"p", "r", "o", "l", "o", "g">>>>,
       <<<<".", "p", "a", "s">>, <<"f", "p", "c">>>>,
       <<<<".", "p", "h", "p">>, <<"p", "h", "p">>>>,
       <<<<".", "p", "l">>, <<"p", "e", "r", "l">>>>,
       <<<<".", "p", "s", "1">>, <<"p", "o", "w", "e", "r", "s", "h", "e", "l", "l", " ", "-", "F", "i", "l", "e">>>>,
       <<<<".", "p", "y">>, <<"p", "y", "t", "h", "o", "n">>>>,
       <<<<".", "p", "y", "c">>, <<"p", "y", "t", "h", "o", "n">>>>,
       <<<<".", "p", "y", "x">>, <<"c", "y", "t", "h", "o", "n">>>>,
       <<<<".", "r">>, <<"R", "s", "c", "r", "i", "p", "t">>>>,
       <<<<".", "r", "b">>, <<"r", "u", "b", "y">>>>,
       <<<<".", "r", "s">>, <<"r", "u", "s", "t", "c">>>>,
       <<<<".", "r", "s", "t">>, <<"s", "k", "i", "p">>>>,
       <<<<".", "s", "a", "s", "s">>, <<"s", "k", "i", "p">>>>,
       <<<<".", "s", "c", "a", "l", "a">>, <<"s", "c", "a", "l", "a">>>>,
       <<<<".", "s", "c", "s", "s">>, <<"s", "k", "i", "p">>>>,
       <<<<".", "s", "h">>, <<"b", "a", "s", "h">>>>,
       <<<<".", "s", "m", "l">>, <<"s", "m", "l">>>>,
       <<<<".", "s", "q", "l">>, <<"s", "k", "i", "p">>>>,
       <<<<".", "s", "w", "i", "f", "t">>, <<"s", "w", "i", "f", "t">>>>,
       <<<<".", "t", "c", "l">>, <<"t", "c", "l", "s", "h">>>>,
       <<<<".", "t", "e", "x">>, <<"s", "k", "i", "p">>>>,
       <<<<".", "t", "s">>, <<"t", "s", "-", "n", "o", "d", "e">>>>,
       <<<<".", "t", "s", "x">>, <<"t", "s", "-", "n", "o", "d", "e">>>>,
       <<<<".", "t", "x", "t">>, <<"s", "k", "i", "p">>>>,
       <<<<".", "v", "b">>, <<"v", "b", "n", "c">>>>,
       <<<<".", "v", "b", "s">>, <<"c", "s", "c", "r", "i", "p", "t", " ", "/", "/", "N", "o", "l", "o", "g", "o">>>>,
       <<<<".", "v", "u", "e">>, <<"s", "k", "i", "p">>>>,
       <<<<".", "x", "m", "l">>, <<"s", "k", "i", "p">>>>,
       <<<<".", "y", "a", "m", "l">>, <<"s", "k", "i", "p">>>>,
       <<<<".", "y", "m", "l">>, <<"s", "k", "i", "p">>>>
    >>

\* the keys of the dict built at line 283 are lowercased
LowercaseMapping ==
    [k \in 1..Len(MappingTable) |-> <<Lower(MappingTable[k][1]), MappingTable[k][2]>>]

HasKey(key) == \E k \in 1..Len(LowercaseMapping) : LowercaseMapping[k][1] = key

\* dict.get(key, default): an exact-key lookup, __missing__ is not consulted
MappingGet(key, default) ==
    IF HasKey(key)
    THEN LowercaseMapping[CHOOSE k \in 1..Len(LowercaseMapping) :
                              LowercaseMapping[k][1] = key][2]
    ELSE default

\* faulty variant: a missing key is not retried in lowercase
MappingGetItemExact(key) == MappingGet(key, <<>>)

\* mapping[key]: __missing__ retries with the lowercased key, default ""
MappingGetItem(key) ==
    IF HasKey(key) THEN MappingGet(key, <<>>) ELSE MappingGet(Lower(key), <<>>)

----------------------------------------------------------------------------
(* Python sequence values *)

PyList(items) == [type |-> "list", items |-> items]
PyTuple(items) == [type |-> "tuple", items |-> items]

\* seq[:n]
Slice(s, n) == SubSeq(s, 1, IF n < Len(s) THEN n ELSE Len(s))

\* [x] * n (n <= 0 gives the empty list)
Repeat(x, n) == [k \in 1..n |-> x]

\* a + b on Python sequences: defined only for operands of the same type
ConcatRaises(a, b) == a.type # b.type
Concat(a, b) == [type |-> a.type, items |-> a.items \o b.items]

----------------------------------------------------------------------------
(* Inputs *)

FileNames == { <<"a", ".", "p", "y">>, <<"b", ".", "P", "Y">>, <<"c", ".", "m", "d">> }
CommandNames == { Py_python, SKIP, <<"S", "k", "I", "P">> }
Durations == { 450, 1230 }
Outcomes == { "nonzero", "timeout" }

SeqsUpTo(S, n) == UNION { [1..k -> S] : k \in 0..n }
\* the files of a gist come from a dict keyed by file name: names are distinct
FileLists == { s \in SeqsUpTo(FileNames, MaxFiles) :
                 \A j, k \in 1..Len(s) : j # k => s[j] # s[k] }
CommandLists == SeqsUpTo(CommandNames, MaxCommands)

NoChild == [file |-> 0, temp |-> 0]

----------------------------------------------------------------------------
(* validate_commands *)

\* Faulty variants of validate_commands, used to show that the properties
\* below depend on it:
\*   "no_raise"     a declined prompt does not raise
\*   "no_truncate"  the surplus commands are not dropped
\*   "always_ask"   the prompt is shown whenever commands are given
\*   "pad_by_commands"  an empty command list yields one "skip" per command
ValidateCommandsVariant(cmds, fs, answer, fault) ==
    LET num_files == Len(fs)
        num_commands == Len(cmds.items)
        padding == PyList(Repeat(SKIP, num_files - num_commands))
        head == [type |-> cmds.type,
                 items |-> IF fault = "no_truncate" THEN cmds.items
                           ELSE Slice(cmds.items, num_files)]
        mismatch == << <<"Number of run commands does not match", num_commands, num_files>> >>
    IN  IF num_commands = 0
        THEN [asked |-> FALSE, raised |-> "none",
              echo |-> << <<"No commands provided to execute files.">> >>,
              value |-> PyList(Repeat(SKIP, IF fault = "pad_by_commands"
                                            THEN num_commands ELSE num_files))]
        ELSE IF num_commands # num_files \/ fault = "always_ask"
        THEN IF ~answer /\ fault # "no_raise"
             THEN [asked |-> TRUE, raised |-> "ValueError", echo |-> mismatch, value |-> cmds]
             ELSE IF ConcatRaises(head, padding)
             THEN [asked |-> TRUE, raised |-> "TypeError", echo |-> mismatch, value |-> cmds]
             ELSE [asked |-> TRUE, raised |-> "none", echo |-> mismatch,
                   value |-> Concat(head, padding)]
        ELSE [asked |-> FALSE, raised |-> "none", echo |-> <<>>, value |-> cmds]

ValidateCommandsNoRaise(cmds, fs, answer) ==
    ValidateCommandsVariant(cmds, fs, answer, "no_raise")
ValidateCommandsNoTruncate(cmds, fs, answer) ==
    ValidateCommandsVariant(cmds, fs, answer, "no_truncate")
ValidateCommandsAlwaysAsk(cmds, fs, answer) ==
    ValidateCommandsVariant(cmds, fs, answer, "always_ask")
ValidateCommandsPadByCommands(cmds, fs, answer) ==
    ValidateCommandsVariant(cmds, fs, answer, "pad_by_commands")

\* The outcome of validate_commands(commands, files) when click.confirm,
\* if it is called, answers `answer`.
ValidateCommands(cmds, fs, answer) ==
    LET num_files == Len(fs)
        num_commands == Len(cmds.items)
        padding == PyList(Repeat(SKIP, num_files - num_commands))
        head == [type |-> cmds.type, items |-> Slice(cmds.items, num_files)]
    IN  IF num_commands = 0
        THEN [asked |-> FALSE, raised |-> "none",
              echo |-> << <<"No commands provided to execute files.">> >>,
              value |-> PyList(Repeat(SKIP, num_files))]
        ELSE IF num_commands # num_files
        THEN IF ~answer
             THEN [asked |-> TRUE, raised |-> "ValueError",
                   echo |-> << <<"Number of run commands does not match", num_commands, num_files>> >>,
                   value |-> cmds]
             ELSE IF ConcatRaises(head, padding)
             THEN [asked |-> TRUE, raised |-> "TypeError",
                   echo |-> << <<"Number of run commands does not match", num_commands, num_files>> >>,
                   value |-> cmds]
             ELSE [asked |-> TRUE, raised |-> "none",
                   echo |-> << <<"Number of run commands does not match", num_commands, num_files>> >>,
                   value |-> Concat(head, padding)]
        ELSE [asked |-> FALSE, raised |-> "none", echo |-> <<>>, value |-> cmds]

\* the message of the exception raised by validate_commands
ValidateCommandsMessage(exc) ==
    CASE exc = "ValueError" -> <<"Aborted due to command mismatch.">>
      [] exc = "TypeError" -> <<"can only concatenate tuple (not \"list\") to tuple">>
      [] OTHER -> <<>>

MismatchPrompt(answer) ==
    [prompt |-> "Do you want to proceed with the available commands?", answer |-> answer]
ProceedPrompt(answer) ==
    [prompt |-> "Are you sure you want to proceed?", answer |-> answer]

----------------------------------------------------------------------------
(* Labels *)

FullCommand(command, filename) == command \o <<" ">> \o filename
SkippedLabel(filename) == <<"S", "k", "i", "p", "p", "e", "d", " ">> \o filename

\* faulty variant: the skip marker is compared without lowercasing
IsSkipCaseSensitive(command) == command = SKIP

IsSkip(command) == Lower(command) = SKIP

\* zip(files, commands) stops at the shorter of the two
ZipLen == IF Len(files) < Len(plan.items) THEN Len(files) ELSE Len(plan.items)

----------------------------------------------------------------------------
(* generate_execution_report *)

DigitChars == <<"0", "1", "2", "3", "4", "5", "6", "7", "8", "9">>

\* str(n) of a natural number
RECURSIVE DecimalString(_)
DecimalString(n) ==
    IF n < 10 THEN <<DigitChars[n + 1]>>
    ELSE DecimalString(n \div 10) \o <<DigitChars[(n % 10) + 1]>>

\* f"{t:.2f}" of a time of ms milliseconds: the nearest hundredth, written
\* with at least one digit before the point and two after it.  A time that
\* lies halfway between two hundredths is rounded by its binary value; the
\* times used here are even numbers of milliseconds, as are their sums, so
\* that none lies halfway.
Format2f(ms) ==
    LET hundredths == (ms + 5) \div 10
    IN  DecimalString(hundredths \div 100) \o <<".">> \o
        <<DigitChars[((hundredths \div 10) % 10) + 1], DigitChars[(hundredths % 10) + 1]>>

ReportHeader == <<"E", "x", "e", "c", "u", "t", "i", "o", "n", " ", "R", "e", "p", "o", "r", "t", ":">>
CommandPrefix == <<"-", " ", "C", "o", "m", "m", "a", "n", "d", ":", " ">>
TimePrefix == <<" ", " ", "E", "x", "e", "c", "u", "t", "i", "o", "n", " ", "T", "i", "m", "e", ":", " ">>
TotalPrefix == <<"T", "o", "t", "a", "l", " ", "E", "x", "e", "c", "u", "t", "i", "o", "n", " ", "T", "i", "m", "e", ":", " ">>
SecondsSuffix == <<" ", "s", "e", "c", "o", "n", "d", "s">>

\* faulty variant: only the last elapsed time is kept
SumTimesLastOnly(rs) == IF Len(rs) = 0 THEN 0 ELSE rs[Len(rs)][2]

\* total_time after the loop: 0.0 plus every execution_time, in order
RECURSIVE SumTimes(_)
SumTimes(rs) == IF Len(rs) = 0 THEN 0 ELSE SumTimes(SubSeq(rs, 1, Len(rs) - 1)) + rs[Len(rs)][2]

\* the two lines added to the report for each result, in order
RECURSIVE ReportItems(_)
ReportItems(rs) ==
    IF Len(rs) = 0 THEN <<>>
    ELSE CommandPrefix \o Head(rs)[1] \o <<"\n">> \o
         TimePrefix \o Format2f(Head(rs)[2]) \o SecondsSuffix \o <<"\n">> \o
         ReportItems(Tail(rs))

\* faulty variant: the report ends with a newline
GenerateExecutionReportNewline(rs) ==
    ReportHeader \o <<"\n">> \o ReportItems(rs) \o
    <<"\n">> \o TotalPrefix \o Format2f(SumTimes(rs)) \o SecondsSuffix \o <<"\n">>

GenerateExecutionReport(rs) ==
    ReportHeader \o <<"\n">> \o ReportItems(rs) \o
    <<"\n">> \o TotalPrefix \o Format2f(SumTimes(rs)) \o SecondsSuffix

----------------------------------------------------------------------------
(* Argument validation *)

Digits == {"0", "1", "2", "3", "4", "5", "6", "7", "8", "9"}
IsAlnum(c) ==
    \/ \E k \in 1..Len(UpperChars) : UpperChars[k] = c
    \/ \E k \in 1..Len(LowerChars) : LowerChars[k] = c
    \/ c \in Digits

CountOf(s, c) == Cardinality({ k \in 1..Len(s) : s[k] = c })

NoError == [raised |-> "none", message |-> <<>>]
ValueError(msg) == [raised |-> "ValueError", message |-> msg]

\* str.split("/", 1) of a string with exactly one "/"
SplitPair(s) ==
    LET i == CHOOSE k \in 1..Len(s) : s[k] = "/"
    IN  <<SubSeq(s, 1, i - 1), SubSeq(s, i + 1, Len(s))>>

\* faulty variant: the two parts are not checked for being empty
ValidateUsernameGistnamePairCountOnly(s) ==
    IF CountOf(s, "/") # 1
    THEN ValueError(<<"Invalid format for username_gistname_pair", s>>)
    ELSE NoError

\* validate_username_gistname_pair
ValidateUsernameGistnamePair(s) ==
    IF CountOf(s, "/") # 1
    THEN ValueError(<<"Invalid format for username_gistname_pair", s>>)
    ELSE IF Len(SplitPair(s)[1]) = 0 \/ Len(SplitPair(s)[2]) = 0
    THEN ValueError(<<"Neither username nor gist name can be empty.">>)
    ELSE NoError

\* a pattern that ends in "$" matches at the end of the string and also
\* just before a newline that ends the string
WithoutFinalNewline(s) ==
    IF Len(s) > 0 /\ s[Len(s)] = "\n" THEN SubSeq(s, 1, Len(s) - 1) ELSE s

\* ^[a-zA-Z0-9]([a-zA-Z0-9-_]{0,38}[a-zA-Z0-9])?$ on the whole of t
UsernameShape(t) ==
    /\ Len(t) >= 1 /\ Len(t) <= 40
    /\ IsAlnum(t[1])
    /\ IsAlnum(t[Len(t)])
    /\ \A k \in 2..(Len(t) - 1) : IsAlnum(t[k]) \/ t[k] \in {"-", "_"}

UsernamePatternMatches(u) ==
    UsernameShape(u) \/ UsernameShape(WithoutFinalNewline(u))

\* validate_username
ValidateUsername(u) ==
    IF ~UsernamePatternMatches(u)
    THEN ValueError(<<"Invalid GitHub username format", u>>)
    ELSE IF Len(u) > 39
    THEN ValueError(<<"GitHub username too long (maximum 39 characters)", u>>)
    ELSE NoError

\* ^[a-zA-Z0-9-_\.]+$ on the whole of t
GistNameShape(t) ==
    /\ Len(t) >= 1
    /\ \A k \in 1..Len(t) : IsAlnum(t[k]) \/ t[k] \in {"-", "_", "."}

GistNamePatternMatches(g) ==
    GistNameShape(g) \/ GistNameShape(WithoutFinalNewline(g))

\* validate_gist_name
ValidateGistName(g) ==
    IF ~GistNamePatternMatches(g)
    THEN ValueError(<<"Invalid gist name format", g>>)
    ELSE NoError

\* faulty variant: only the shape of the pair is validated
ValidateArgumentPairOnly(s) == ValidateUsernameGistnamePair(s)

\* the three validation calls at the head of exec, hash and print
ValidateArgument(s) ==
    IF ValidateUsernameGistnamePair(s).raised # "none"
    THEN ValidateUsernameGistnamePair(s)
    ELSE IF ValidateUsername(SplitPair(s)[1]).raised # "none"
    THEN ValidateUsername(SplitPair(s)[1])
    ELSE ValidateGistName(SplitPair(s)[2])

----------------------------------------------------------------------------
(* Authentication token *)

\* os.getenv gives None for a variable that is not set
None == "None"
Truthy(v) == v # None /\ v # ""

GITHUB_TOKEN_ENV_VARS == <<"GH_TOKEN", "GITHUB_TOKEN">>

\* get_github_token_from_env: the first variable of the list with a
\* non-empty value
GetGithubTokenFromEnv(env) ==
    IF \E k \in 1..Len(GITHUB_TOKEN_ENV_VARS) : Truthy(env[GITHUB_TOKEN_ENV_VARS[k]])
    THEN env[GITHUB_TOKEN_ENV_VARS[
             CHOOSE k \in 1..Len(GITHUB_TOKEN_ENV_VARS) :
                 /\ Truthy(env[GITHUB_TOKEN_ENV_VARS[k]])
                 /\ \A j \in 1..(k - 1) : ~Truthy(env[GITHUB_TOKEN_ENV_VARS[j]])]]
    ELSE ""

\* faulty variant: the environment is preferred to the argument
CommandTokenEnvFirst(tokenArg, env) ==
    IF Truthy(GetGithubTokenFromEnv(env)) THEN GetGithubTokenFromEnv(env)
    ELSE IF Truthy(tokenArg) THEN tokenArg ELSE ""

\* "if not token: token = get_github_token_from_env()"
CommandToken(tokenArg, env) ==
    IF Truthy(tokenArg) THEN tokenArg ELSE GetGithubTokenFromEnv(env)

----------------------------------------------------------------------------
(* The remote service *)

GIST_FETCH_LIMIT == 100

NoGist == [id |-> 0, description |-> <<>>]

\* page n of the owner's gists, per_page = GIST_FETCH_LIMIT
RemotePage(r, n) ==
    SubSeq(r, (n - 1) * GIST_FETCH_LIMIT + 1,
           IF n * GIST_FETCH_LIMIT < Len(r) THEN n * GIST_FETCH_LIMIT ELSE Len(r))

\* list_user_gists sends per_page only: the service answers with page 1
ListUserGists(r) == RemotePage(r, 1)

\* faulty variant: the last gist with the description is taken
MatchIndexLast(listing, name) ==
    IF \E k \in 1..Len(listing) : listing[k].description = name
    THEN CHOOSE k \in 1..Len(listing) :
             /\ listing[k].description = name
             /\ \A j \in (k + 1)..Len(listing) : listing[j].description # name
    ELSE 0

\* the "for gist in gists" loop of fetch_gist: the first gist of the listing
\* whose description is equal to the name
MatchIndex(listing, name) ==
    IF \E k \in 1..Len(listing) : listing[k].description = name
    THEN CHOOSE k \in 1..Len(listing) :
             /\ listing[k].description = name
             /\ \A j \in 1..(k - 1) : listing[j].description # name
    ELSE 0

----------------------------------------------------------------------------
(* hash_gist and compare_hash *)

\* no --hash option, and no digest computed
NoHash == <<>>

ByteOf(c) == CASE c = "a" -> 97 [] c = "x" -> 120 [] c = "y" -> 121

\* str.encode("utf-8") on ASCII text
Utf8(text) == [k \in 1..Len(text) |-> ByteOf(text[k])]

\* faulty variant: the contents are joined in reverse order
RECURSIVE JoinReversed(_)
JoinReversed(cs) == IF Len(cs) = 0 THEN <<>> ELSE JoinReversed(Tail(cs)) \o Head(cs)

\* "".join(...) over the contents, in list order
RECURSIVE Join(_)
Join(cs) == IF Len(cs) = 0 THEN <<>> ELSE Head(cs) \o Join(Tail(cs))

SupportedHashFuncs ==
    {"md5", "sha1", "sha224", "sha256", "sha384", "sha512", "blake2b", "blake2s"}

\* hashlib.new(func).update(bytes).hexdigest(): digests of different byte
\* sequences or of different algorithms are taken to be different
HexDigest(func, bytes) == <<"hexdigest", func, bytes>>

\* hash_gist on the contents that its get_files call fetched
HashGist(cs, func) ==
    IF func \notin SupportedHashFuncs
    THEN [raised |-> "ValueError", message |-> <<"unsupported hash type", func>>,
          digest |-> NoHash]
    ELSE [raised |-> "none", message |-> <<>>,
          digest |-> HexDigest(func, Utf8(Join(cs)))]

\* faulty variants: the digests are not compared; the comparison is inverted
CompareHashNeverRaises(cs, expected, func) == HashGist(cs, func)
CompareHashInverted(cs, expected, func) ==
    LET h == HashGist(cs, func)
    IN  IF h.raised # "none" THEN h
        ELSE IF h.digest = expected
        THEN [raised |-> "ValueError",
              message |-> <<"Hash mismatch.", expected, h.digest>>,
              digest |-> h.digest]
        ELSE h

\* compare_hash
CompareHash(cs, expected, func) ==
    LET h == HashGist(cs, func)
    IN  IF h.raised # "none" THEN h
        ELSE IF h.digest # expected
        THEN [raised |-> "ValueError",
              message |-> <<"Hash mismatch.", expected, h.digest>>,
              digest |-> h.digest]
        ELSE h

----------------------------------------------------------------------------
(* The command boundary *)

\* faulty variant: only request errors are caught
CaughtRequestOnly(exc) == exc = "RequestException"

\* "except (requests.exceptions.RequestException, ValueError)"
Caught(exc) == exc \in {"RequestException", "ValueError"}

Commands == {"exec", "hash", "print"}

----------------------------------------------------------------------------
(* Inputs of the commands and of the remote calls *)

\* USERNAME/GIST_NAME arguments: one that is valid, and one for each way of
\* being rejected
LongName == [k \in 1..40 |-> "a"]
Args == { <<"o", "/", "g">>,
          <<"o", "g">>,
          <<"o", "/", "g", "/", "x">>,
          <<"/", "g">>,
          <<"-", "o", "/", "g">>,
          <<"o", "/", "g", "!">>,
          LongName \o <<"/", "g">> }

GistNames == { <<"g">>, <<"G">> }

Gist(id, description) == [id |-> id, description |-> description]

\* the owner's gists as seen by a command: the gist asked for, no gist at
\* all, or only another gist
CommandRemotes == { <<Gist(1, <<"g">>)>>, <<>>, <<Gist(1, <<"h">>)>> }

\* a listing longer than one page, with the only match on the second page
LongRemote ==
    [k \in 1..(GIST_FETCH_LIMIT + 1) |->
        Gist(k, IF k = GIST_FETCH_LIMIT + 1 THEN <<"g">> ELSE <<"h">>)]

FetchRemotes ==
    CommandRemotes \cup
    { <<Gist(1, <<"h">>), Gist(2, <<"g">>)>>,
      <<Gist(1, <<"g">>), Gist(2, <<"G">>)>>,
      <<Gist(1, <<"G">>), Gist(2, <<"g">>)>>,
      <<Gist(1, <<"g">>), Gist(2, <<"g">>)>>,
      <<Gist(1, <<"G">>)>>,
      LongRemote }

TokenArgs == { None, "c" }
Envs == [ {"GH_TOKEN", "GITHUB_TOKEN"} -> {None} ] \cup
        { [GH_TOKEN |-> "", GITHUB_TOKEN |-> "h"] }

Contents == { <<"x">>, <<"a">>, <<"a", "a">> }

\* what the raw URLs of the gist of a command serve: the original contents
\* or, after the gist was edited, other contents
RemoteVersions == {1, 2}
VersionContents(fs, v) ==
    [k \in 1..Len(fs) |-> IF v = 1 THEN (IF k % 2 = 1 THEN <<"x">> ELSE <<"y">>)
                          ELSE <<"a">>]

\* the contents one get_files call can fetch for the files fs
FetchableContents(fs) ==
    IF entry \in {"exec", "hash", "print"}
    THEN { VersionContents(fs, v) : v \in RemoteVersions }
    ELSE [1..Len(fs) -> Contents]

HashFuncArgs == { "sha256", "md5", "crc32" }

Extensions == { <<".", "p", "y">>, <<".", "P", "Y">>, <<".", "P", "y">>,
                <<".", "m", "d">>, <<".", "M", "d">>,
                <<".", "z">>, <<".", "Z">>, <<>> }

\* environments for a direct call of get_github_token_from_env: each
\* variable unset, set to the empty string, or set to a token
AllEnvs == { [GH_TOKEN |-> a, GITHUB_TOKEN |-> b] : a \in {None, "", "g"},
                                                    b \in {None, "", "h"} }

\* arguments for a direct call of validate_username_gistname_pair
Pairs == Args \cup { <<>>, <<"/">>, <<"o", "/">>, <<"o", "/", "/", "g">>,
                     <<"o", "-", "b", "/", "g", ".", "p", "y">> }

\* arguments for a direct call of validate_username
Usernames == { <<>>, <<"o">>, <<"o", "\n">>, <<"\n">>, <<"-", "o">>, <<"o", "-">>,
               <<"o", "_", "b">>, <<"o", "-", "b">>, <<"o", "!", "b">>, <<"o", ".", "b">>,
               <<"O", "9">>,
               [k \in 1..39 |-> "a"], LongName, [k \in 1..41 |-> "a"],
               [k \in 1..39 |-> "a"] \o <<"\n">> }

\* results for a direct call of generate_execution_report
ResultItems ==
    { <<SkippedLabel(<<"a", ".", "p", "y">>), 0>>,
      <<FullCommand(Py_python, <<"a", ".", "p", "y">>), 1230>>,
      <<FullCommand(Py_python, <<"b", ".", "P", "Y">>), 450>>,
      <<FullCommand(Py_python, <<"a", ".", "p", "y">>), 4>>,
      <<FullCommand(Py_python, <<"a", ".", "p", "y">>), 6>>,
      <<FullCommand(Py_python, <<"c", ".", "m", "d">>), 12346>> }
ResultLists == SeqsUpTo(ResultItems, MaxFiles)

----------------------------------------------------------------------------
(* Initial states *)

Init ==
    /\ entry \in {"exec", "hash", "print", "validate_commands", "execute_files",
                  "fetch_gist", "compare_hash", "execute_mapping",
                  "generate_execution_report", "get_github_token_from_env",
                  "validate_username_gistname_pair", "validate_username"}
    /\ files \in (IF entry \in {"exec", "hash", "print", "validate_commands",
                                "execute_files", "compare_hash"}
                  THEN FileLists ELSE {<<>>})
    /\ \E items \in (IF entry \in {"exec", "validate_commands", "execute_files"}
                     THEN CommandLists ELSE {<<>>}) :
          commands = IF entry \in Commands THEN PyTuple(items) ELSE PyList(items)
    /\ dry_run \in (IF entry \in {"exec", "execute_files"} THEN BOOLEAN ELSE {FALSE})
    /\ yes \in (IF entry = "exec" THEN BOOLEAN ELSE {FALSE})
    /\ report \in (IF entry = "exec" THEN BOOLEAN ELSE {FALSE})
    /\ pc = (CASE entry \in Commands -> "start"
               [] entry = "validate_commands" -> "validate"
               [] entry = "execute_files" -> "loop"
               [] entry = "fetch_gist" -> "fetch"
               [] entry = "compare_hash" -> "compare"
               [] entry = "execute_mapping" -> "lookup"
               [] OTHER -> "call")
    /\ plan = (IF entry = "execute_files" THEN commands ELSE PyList(<<>>))
    /\ idx = 1
    /\ results \in (IF entry = "generate_execution_report" THEN ResultLists ELSE {<<>>})
    /\ child = NoChild
    /\ spawned = <<>>
    /\ tempFiles = {}
    /\ tempCreated = 0
    /\ prompts = <<>>
    /\ echoed = <<>>
    /\ raised = "none"
    /\ message = <<>>
    /\ arg \in (IF entry = "validate_username_gistname_pair" THEN Pairs ELSE {<<>>})
    /\ username \in (CASE entry = "fetch_gist" -> {<<"o">>}
                       [] entry = "validate_username" -> Usernames
                       [] OTHER -> {<<>>})
    /\ gist_name \in (IF entry = "fetch_gist" THEN GistNames ELSE {<<>>})
    /\ token = ""
    /\ remote \in (CASE entry \in Commands -> CommandRemotes
                     [] entry = "fetch_gist" -> FetchRemotes
                     [] OTHER -> {<<>>})
    /\ page = 1
    /\ gists = <<>>
    /\ gist = NoGist
    /\ hash = NoHash
    /\ hash_func = "sha256"
    /\ actualHash = NoHash
    /\ hashed = <<>>
    /\ contents = <<>>
    /\ requests = {}
    /\ ext \in (IF entry = "execute_mapping" THEN Extensions ELSE {<<>>})
    /\ lookup = <<>>
    /\ token_arg = None
    /\ environ \in (IF entry = "get_github_token_from_env" THEN AllEnvs
                    ELSE {[v \in {"GH_TOKEN", "GITHUB_TOKEN"} |-> None]})
    /\ report_content = <<>>

----------------------------------------------------------------------------
(* A direct call of validate_commands *)

ValidateCommandsCall ==
    /\ entry = "validate_commands"
    /\ pc = "validate"
    /\ \E answer \in BOOLEAN :
         LET r == ValidateCommands(commands, files, answer)
         IN  /\ prompts' = (IF r.asked THEN Append(prompts, MismatchPrompt(answer)) ELSE prompts)
             /\ echoed' = echoed \o r.echo
             /\ raised' = r.raised
             /\ message' = ValidateCommandsMessage(r.raised)
             /\ plan' = (IF r.raised = "none" THEN r.value ELSE plan)
             /\ pc' = (IF r.raised = "none" THEN "returned" ELSE "raised")
    /\ UNCHANGED <<entry, files, commands, dry_run, yes, report, idx, results,
                   child, spawned, tempFiles, tempCreated, remoteVars,
                   report_content>>

----------------------------------------------------------------------------
(* The head of the exec, hash and print commands, and fetch_gist *)

\* An exception leaves the code that is running: a command catches it at
\* its except clause if it is one of the caught kinds and echoes it;
\* otherwise it leaves the entry point.
Raise(exc, msg) ==
    /\ raised' = exc
    /\ message' = msg
    /\ pc' = (IF entry \in Commands
              THEN (IF Caught(exc) THEN "done" ELSE "crashed")
              ELSE "raised")
    /\ echoed' = (IF entry \in Commands /\ Caught(exc)
                  THEN Append(echoed, <<"Error:", msg>>)
                  ELSE echoed)

\* exec 613-615, hash 693-695, print 735-737
CommandValidateArgs ==
    /\ entry \in Commands
    /\ pc = "start"
    /\ \E a \in Args :
         /\ arg' = a
         /\ IF ValidateArgument(a).raised # "none"
            THEN /\ Raise(ValidateArgument(a).raised, ValidateArgument(a).message)
                 /\ UNCHANGED <<username, gist_name>>
            ELSE /\ username' = SplitPair(a)[1]
                 /\ gist_name' = SplitPair(a)[2]
                 /\ pc' = "token"
                 /\ UNCHANGED <<raised, message, echoed>>
    /\ UNCHANGED <<entry, files, commands, dry_run, yes, report, plan, idx, results,
                   child, spawned, tempFiles, tempCreated, prompts,
                   token, remote, page, gists, gist, hash, hash_func, actualHash,
                   hashed, contents, requests, ext, lookup,
                   token_arg, environ, report_content>>

\* exec 617-618, hash 697-698, print 739-740
CommandGetToken ==
    /\ entry \in Commands
    /\ pc = "token"
    /\ \E tokenArg \in TokenArgs, env \in Envs :
         /\ token_arg' = tokenArg
         /\ environ' = env
         /\ token' = CommandToken(tokenArg, env)
    /\ pc' = "fetch"
    /\ UNCHANGED <<entry, files, commands, dry_run, yes, report, plan, idx, results,
                   child, spawned, tempFiles, tempCreated, prompts, echoed, raised,
                   message, arg, username, gist_name, remote, page, gists, gist,
                   hash, hash_func, actualHash, hashed, contents, requests, ext, lookup,
                   report_content>>

\* fetch_gist line 183 and list_user_gists 137-142: one request, answered
\* with a listing or failing (transport error or raise_for_status)
FetchRequest ==
    /\ entry \in Commands \cup {"fetch_gist"}
    /\ pc = "fetch"
    /\ requests' = requests \cup {<<"GET /users/{username}/gists", username, token>>}
    /\ \E ok \in BOOLEAN :
         IF ok
         THEN /\ gists' = ListUserGists(remote)
              /\ pc' = "scan"
              /\ UNCHANGED <<raised, message, echoed>>
         ELSE /\ Raise("RequestException", <<"Request failed">>)
              /\ UNCHANGED gists
    /\ UNCHANGED <<entry, files, commands, dry_run, yes, report, plan, idx, results,
                   child, spawned, tempFiles, tempCreated, prompts,
                   arg, username, gist_name, token, remote, page, gist,
                   hash, hash_func, actualHash, hashed, contents, ext, lookup,
                   token_arg, environ, report_content>>

\* where a command or a caller goes on once fetch_gist has returned
AfterFetch ==
    CASE entry = "exec" -> "hash"
      [] entry = "hash" -> "hash_gist"
      [] entry = "print" -> "print_gist"
      [] OTHER -> "returned"

\* fetch_gist lines 184-193: an empty listing ends the loop with "Gist not
\* found", a gist with the description asked for is returned, and otherwise
\* the page counter is incremented and the loop goes round
FetchScan ==
    /\ pc = "scan"
    /\ IF Len(gists) = 0
       THEN /\ Raise("ValueError", <<"Gist not found", username, gist_name>>)
            /\ UNCHANGED <<gist, page>>
       ELSE IF MatchIndex(gists, gist_name) # 0
       THEN /\ gist' = gists[MatchIndex(gists, gist_name)]
            /\ pc' = AfterFetch
            /\ UNCHANGED <<page, raised, message, echoed>>
       ELSE /\ page' = (IF page < MaxPage THEN page + 1 ELSE page)
            /\ pc' = "fetch"
            /\ UNCHANGED <<gist, raised, message, echoed>>
    /\ UNCHANGED <<entry, files, commands, dry_run, yes, report, plan, idx, results,
                   child, spawned, tempFiles, tempCreated, prompts,
                   arg, username, gist_name, token, remote, gists,
                   hash, hash_func, actualHash, hashed, contents, requests, ext, lookup,
                   token_arg, environ, report_content>>

RawRequests(fs) == { <<"GET raw_url", fs[k]>> : k \in 1..Len(fs) }

\* the values --hash may have for the files fs: absent, or the digest the
\* user took of the original contents of the gist
HashArgs(fs) ==
    {NoHash} \cup
    { HexDigest(f, Utf8(Join(VersionContents(fs, 1)))) :
          f \in SupportedHashFuncs \cap HashFuncArgs }

\* exec 622-623: compare_hash, which calls hash_gist, which fetches the
\* files (305) and digests them
ExecCompareHash ==
    /\ entry = "exec"
    /\ pc = "hash"
    /\ \E h \in HashArgs(files),
          f \in HashFuncArgs,
          cs \in FetchableContents(files) :
         /\ h = NoHash => f = "sha256"
         /\ hash' = h
         /\ hash_func' = f
         /\ IF h = NoHash
            THEN /\ pc' = "get_files"
                 /\ UNCHANGED <<hashed, actualHash, requests, raised, message, echoed>>
            ELSE /\ hashed' = cs
                 /\ requests' = requests \cup RawRequests(files)
                 /\ actualHash' = CompareHash(cs, h, f).digest
                 /\ IF CompareHash(cs, h, f).raised # "none"
                    THEN Raise(CompareHash(cs, h, f).raised, CompareHash(cs, h, f).message)
                    ELSE /\ pc' = "get_files"
                         /\ UNCHANGED <<raised, message, echoed>>
    /\ UNCHANGED <<entry, files, commands, dry_run, yes, report, plan, idx, results,
                   child, spawned, tempFiles, tempCreated, prompts,
                   arg, username, gist_name, token, remote, page, gists, gist,
                   contents, ext, lookup,
                   token_arg, environ, report_content>>

\* exec 625: get_files fetches every file of the gist again
ExecGetFiles ==
    /\ entry = "exec"
    /\ pc = "get_files"
    /\ \E cs \in FetchableContents(files) : contents' = cs
    /\ requests' = requests \cup RawRequests(files)
    /\ pc' = "plan"
    /\ UNCHANGED <<entry, files, commands, dry_run, yes, report, plan, idx, results,
                   child, spawned, tempFiles, tempCreated, prompts, echoed, raised,
                   message, arg, username, gist_name, token, remote, page, gists, gist,
                   hash, hash_func, actualHash, hashed, ext, lookup,
                   token_arg, environ, report_content>>

\* hash 701-702
HashCommand ==
    /\ entry = "hash"
    /\ pc = "hash_gist"
    /\ \E f \in HashFuncArgs, cs \in FetchableContents(files) :
         /\ hash_func' = f
         /\ hashed' = cs
         /\ actualHash' = HashGist(cs, f).digest
         /\ IF HashGist(cs, f).raised # "none"
            THEN Raise(HashGist(cs, f).raised, HashGist(cs, f).message)
            ELSE /\ echoed' = Append(echoed, <<"Hash of the combined gist contents", f,
                                               HashGist(cs, f).digest>>)
                 /\ pc' = "done"
                 /\ UNCHANGED <<raised, message>>
    /\ requests' = requests \cup RawRequests(files)
    /\ UNCHANGED <<entry, files, commands, dry_run, yes, report, plan, idx, results,
                   child, spawned, tempFiles, tempCreated, prompts,
                   arg, username, gist_name, token, remote, page, gists, gist,
                   hash, contents, ext, lookup,
                   token_arg, environ, report_content>>

\* print 743 and print_gist 324-328
PrintCommand ==
    /\ entry = "print"
    /\ pc = "print_gist"
    /\ \E cs \in FetchableContents(files) :
         /\ contents' = cs
         /\ echoed' = echoed \o [k \in 1..(2 * Len(files)) |->
                                   IF k % 2 = 1 THEN <<"File:", files[(k + 1) \div 2]>>
                                   ELSE <<cs[k \div 2]>>]
    /\ requests' = requests \cup RawRequests(files)
    /\ pc' = "done"
    /\ UNCHANGED <<entry, files, commands, dry_run, yes, report, plan, idx, results,
                   child, spawned, tempFiles, tempCreated, prompts, raised,
                   message, arg, username, gist_name, token, remote, page, gists, gist,
                   hash, hash_func, actualHash, hashed, ext, lookup,
                   token_arg, environ, report_content>>

----------------------------------------------------------------------------
(* Direct calls of compare_hash and of the launcher mapping *)

\* compare_hash(gist_data, expected_hash, hash_func), lines 312-315
CompareHashCall ==
    /\ entry = "compare_hash"
    /\ pc = "compare"
    /\ \E cs \in FetchableContents(files),
          f \in HashFuncArgs,
          h \in { <<"hexdigest", "other">> } \cup
                { HexDigest(g, Utf8(Join(ds))) : g \in SupportedHashFuncs \cap HashFuncArgs,
                                                 ds \in FetchableContents(files) } :
         /\ hash' = h
         /\ hash_func' = f
         /\ hashed' = cs
         /\ actualHash' = CompareHash(cs, h, f).digest
         /\ IF CompareHash(cs, h, f).raised # "none"
            THEN Raise(CompareHash(cs, h, f).raised, CompareHash(cs, h, f).message)
            ELSE /\ pc' = "returned"
                 /\ UNCHANGED <<raised, message, echoed>>
    /\ requests' = requests \cup RawRequests(files)
    /\ UNCHANGED <<entry, files, commands, dry_run, yes, report, plan, idx, results,
                   child, spawned, tempFiles, tempCreated, prompts,
                   arg, username, gist_name, token, remote, page, gists, gist,
                   contents, ext, lookup,
                   token_arg, environ, report_content>>

\* execute_mapping()[ext]
MappingLookup ==
    /\ entry = "execute_mapping"
    /\ pc = "lookup"
    /\ lookup' = MappingGetItem(ext)
    /\ pc' = "returned"
    /\ UNCHANGED <<entry, files, commands, dry_run, yes, report, plan, idx, results,
                   child, spawned, tempFiles, tempCreated, prompts, echoed, raised,
                   message, arg, username, gist_name, token, remote, page, gists, gist,
                   hash, hash_func, actualHash, hashed, contents, requests, ext,
                   token_arg, environ, report_content>>

\* generate_execution_report(results), lines 427-434
GenerateExecutionReportCall ==
    /\ entry = "generate_execution_report"
    /\ pc = "call"
    /\ report_content' = GenerateExecutionReport(results)
    /\ pc' = "returned"
    /\ UNCHANGED <<entry, files, commands, dry_run, yes, report, plan, idx, results,
                   child, spawned, tempFiles, tempCreated, prompts, echoed, raised,
                   message, remoteVars>>

\* get_github_token_from_env(), lines 50-54
GetGithubTokenFromEnvCall ==
    /\ entry = "get_github_token_from_env"
    /\ pc = "call"
    /\ token' = GetGithubTokenFromEnv(environ)
    /\ pc' = "returned"
    /\ UNCHANGED <<entry, files, commands, dry_run, yes, report, plan, idx, results,
                   child, spawned, tempFiles, tempCreated, prompts, echoed, raised,
                   message, arg, username, gist_name, remote, page, gists, gist,
                   hash, hash_func, actualHash, hashed, contents, requests, ext, lookup,
                   token_arg, environ, report_content>>

\* validate_username_gistname_pair(username_gistname_pair), lines 67-74
ValidateUsernameGistnamePairCall ==
    /\ entry = "validate_username_gistname_pair"
    /\ pc = "call"
    /\ IF ValidateUsernameGistnamePair(arg).raised # "none"
       THEN /\ Raise(ValidateUsernameGistnamePair(arg).raised,
                     ValidateUsernameGistnamePair(arg).message)
            /\ UNCHANGED <<username, gist_name>>
       ELSE /\ username' = SplitPair(arg)[1]
            /\ gist_name' = SplitPair(arg)[2]
            /\ pc' = "returned"
            /\ UNCHANGED <<raised, message, echoed>>
    /\ UNCHANGED <<entry, files, commands, dry_run, yes, report, plan, idx, results,
                   child, spawned, tempFiles, tempCreated, prompts,
                   arg, token, remote, page, gists, gist,
                   hash, hash_func, actualHash, hashed, contents, requests, ext, lookup,
                   token_arg, environ, report_content>>

\* validate_username(username), lines 84-88
ValidateUsernameCall ==
    /\ entry = "validate_username"
    /\ pc = "call"
    /\ IF ValidateUsername(username).raised # "none"
       THEN Raise(ValidateUsername(username).raised, ValidateUsername(username).message)
       ELSE /\ pc' = "returned"
            /\ UNCHANGED <<raised, message, echoed>>
    /\ UNCHANGED <<entry, files, commands, dry_run, yes, report, plan, idx, results,
                   child, spawned, tempFiles, tempCreated, prompts, remoteVars,
                   report_content>>

----------------------------------------------------------------------------
(* The exec command, from the file list on *)

\* commands derived from the launcher mapping when no --run was given
DerivedCommands(fs) ==
    PyList([k \in 1..Len(fs) |-> MappingGet(SplitExt(fs[k]), SKIP)])

\* lines 627-629, and the except clause at 654-655 for a ValueError
ExecPlan ==
    /\ entry = "exec"
    /\ pc = "plan"
    /\ \E answer \in BOOLEAN :
         LET cmds == IF Len(commands.items) = 0 THEN DerivedCommands(files) ELSE commands
             r == ValidateCommands(cmds, files, answer)
         IN  /\ prompts' = (IF r.asked THEN Append(prompts, MismatchPrompt(answer)) ELSE prompts)
             /\ raised' = r.raised
             /\ message' = ValidateCommandsMessage(r.raised)
             /\ plan' = (IF r.raised = "none" THEN r.value ELSE plan)
             /\ echoed' = echoed \o r.echo \o
                          (IF r.raised = "ValueError"
                           THEN << <<"Error: Aborted due to command mismatch.">> >>
                           ELSE <<>>)
             /\ pc' = (CASE r.raised = "none" -> "planned"
                         [] r.raised = "ValueError" -> "done"
                         [] OTHER -> "crashed")
    /\ UNCHANGED <<entry, files, commands, dry_run, yes, report, idx, results,
                   child, spawned, tempFiles, tempCreated, remoteVars,
                   report_content>>

\* lines 652-653
ExecNoFiles ==
    /\ entry = "exec"
    /\ pc = "planned"
    /\ Len(files) = 0
    /\ echoed' = Append(echoed, <<"Gist doesn't contain any executable files.">>)
    /\ pc' = "done"
    /\ UNCHANGED <<entry, files, commands, dry_run, yes, report, plan, idx, results,
                   child, spawned, tempFiles, tempCreated, prompts, raised, message, remoteVars,
                   report_content>>

\* lines 632-643: the listing and the confirmation; click.confirm(abort=True)
\* raises click.Abort on a negative answer
ExecConfirm ==
    /\ entry = "exec"
    /\ pc = "planned"
    /\ Len(files) > 0
    /\ ~dry_run /\ ~yes
    /\ \E answer \in BOOLEAN :
         /\ prompts' = Append(prompts, ProceedPrompt(answer))
         /\ echoed' = echoed \o << <<"The following commands will be executed:">> >> \o
                      [k \in 1..Len(files) |-> <<"  ", FullCommand(plan.items[k], files[k])>>]
         /\ pc' = (IF answer THEN "confirmed" ELSE "aborted")
         /\ raised' = (IF answer THEN raised ELSE "Abort")
    /\ UNCHANGED <<entry, files, commands, dry_run, yes, report, plan, idx, results,
                   child, spawned, tempFiles, tempCreated, message, remoteVars,
                   report_content>>

\* lines 645-646
ExecDryRun ==
    /\ entry = "exec"
    /\ pc = "planned"
    /\ Len(files) > 0
    /\ dry_run
    /\ echoed' = Append(echoed, <<"Dry run - Skipping execution.">>)
    /\ pc' = "done"
    /\ UNCHANGED <<entry, files, commands, dry_run, yes, report, plan, idx, results,
                   child, spawned, tempFiles, tempCreated, prompts, raised, message, remoteVars,
                   report_content>>

\* faulty variant: execute_files is called without waiting for the answer
ExecRunWithoutConfirm ==
    /\ entry = "exec"
    /\ \/ pc = "confirmed"
       \/ pc = "planned" /\ Len(files) > 0 /\ ~dry_run
    /\ pc' = "loop"
    /\ idx' = 1
    /\ results' = <<>>
    /\ UNCHANGED <<entry, files, commands, dry_run, yes, report, plan,
                   child, spawned, tempFiles, tempCreated, prompts, echoed, raised,
                   message, remoteVars,
                   report_content>>

\* line 648: the call of execute_files
ExecRun ==
    /\ entry = "exec"
    /\ \/ pc = "confirmed"
       \/ pc = "planned" /\ Len(files) > 0 /\ ~dry_run /\ yes
    /\ pc' = "loop"
    /\ idx' = 1
    /\ results' = <<>>
    /\ UNCHANGED <<entry, files, commands, dry_run, yes, report, plan,
                   child, spawned, tempFiles, tempCreated, prompts, echoed, raised, message, remoteVars,
                   report_content>>

----------------------------------------------------------------------------
(* execute_files and execute_file *)

\* lines 383-385
SkipFile ==
    /\ pc = "loop"
    /\ idx <= ZipLen
    /\ IsSkip(plan.items[idx])
    /\ echoed' = Append(echoed, <<"Skipping", files[idx]>>)
    /\ results' = Append(results, <<SkippedLabel(files[idx]), 0>>)
    /\ idx' = idx + 1
    /\ UNCHANGED <<entry, files, commands, dry_run, yes, report, pc, plan,
                   child, spawned, tempFiles, tempCreated, prompts, raised, message, remoteVars,
                   report_content>>

\* faulty variant: a dry run records nothing for the file
ExecuteFileDryRunNoRecord ==
    /\ pc = "loop"
    /\ idx <= ZipLen
    /\ ~IsSkip(plan.items[idx])
    /\ dry_run
    /\ idx' = idx + 1
    /\ UNCHANGED <<entry, files, commands, dry_run, yes, report, pc, plan, results,
                   child, spawned, tempFiles, tempCreated, prompts, echoed, raised, message, remoteVars,
                   report_content>>

\* lines 347-350, 363, 387-388
ExecuteFileDryRun ==
    /\ pc = "loop"
    /\ idx <= ZipLen
    /\ ~IsSkip(plan.items[idx])
    /\ dry_run
    /\ echoed' = Append(echoed, <<"Dry run - Skipping execution of", files[idx],
                                  FullCommand(plan.items[idx], files[idx])>>)
    /\ results' = Append(results, <<FullCommand(plan.items[idx], files[idx]), 0>>)
    /\ idx' = idx + 1
    /\ UNCHANGED <<entry, files, commands, dry_run, yes, report, pc, plan,
                   child, spawned, tempFiles, tempCreated, prompts, raised, message, remoteVars,
                   report_content>>

\* faulty variant: the dry_run flag is not consulted
ExecuteFileSpawnInDryRun ==
    /\ pc = "loop"
    /\ idx <= ZipLen
    /\ ~IsSkip(plan.items[idx])
    /\ tempCreated' = tempCreated + 1
    /\ tempFiles' = tempFiles \cup {tempCreated + 1}
    /\ spawned' = Append(spawned, [command |-> plan.items[idx], temp |-> tempCreated + 1,
                                   file |-> idx])
    /\ child' = [file |-> idx, temp |-> tempCreated + 1]
    /\ pc' = "child"
    /\ UNCHANGED <<entry, files, commands, dry_run, yes, report, plan, idx, results,
                   prompts, echoed, raised, message, remoteVars,
                   report_content>>

\* faulty variant: the child is started and not waited for
ExecuteFileSpawnNoWait ==
    /\ pc = "loop"
    /\ idx <= ZipLen
    /\ ~IsSkip(plan.items[idx])
    /\ ~dry_run
    /\ tempCreated' = tempCreated + 1
    /\ tempFiles' = tempFiles \cup {tempCreated + 1}
    /\ spawned' = Append(spawned, [command |-> plan.items[idx], temp |-> tempCreated + 1,
                                   file |-> idx])
    /\ child' = [file |-> idx, temp |-> tempCreated + 1]
    /\ idx' = idx + 1
    /\ UNCHANGED <<entry, files, commands, dry_run, yes, report, pc, plan, results,
                   prompts, echoed, raised, message, remoteVars,
                   report_content>>

\* lines 352-357: the temporary file is written and the child is started
ExecuteFileSpawn ==
    /\ pc = "loop"
    /\ idx <= ZipLen
    /\ ~IsSkip(plan.items[idx])
    /\ ~dry_run
    /\ tempCreated' = tempCreated + 1
    /\ tempFiles' = tempFiles \cup {tempCreated + 1}
    /\ spawned' = Append(spawned, [command |-> plan.items[idx], temp |-> tempCreated + 1,
                                   file |-> idx])
    /\ child' = [file |-> idx, temp |-> tempCreated + 1]
    /\ pc' = "child"
    /\ UNCHANGED <<entry, files, commands, dry_run, yes, report, plan, idx, results,
                   prompts, echoed, raised, message, remoteVars,
                   report_content>>

\* lines 357-359, 363, 388: the child exits with status zero within the timeout
ChildSucceeds ==
    /\ pc = "child"
    /\ \E d \in Durations :
         results' = Append(results, <<FullCommand(plan.items[idx], files[idx]), d>>)
    /\ tempFiles' = tempFiles \ {child.temp}
    /\ child' = NoChild
    /\ idx' = idx + 1
    /\ pc' = "loop"
    /\ UNCHANGED <<entry, files, commands, dry_run, yes, report, plan,
                   spawned, tempCreated, prompts, echoed, raised, message, remoteVars,
                   report_content>>

\* faulty variant: the failure of the child is not caught
ChildFailsPropagates ==
    /\ pc = "child"
    /\ \E o \in Outcomes :
         echoed' = Append(echoed, <<"Error executing", files[idx], o>>)
    /\ raised' = "CalledProcessError"
    /\ message' = <<"Command returned non-zero exit status">>
    /\ child' = NoChild
    /\ pc' = (IF entry = "exec" THEN "crashed" ELSE "raised")
    /\ UNCHANGED <<entry, files, commands, dry_run, yes, report, plan, idx, results,
                   spawned, tempFiles, tempCreated, prompts, remoteVars,
                   report_content>>

\* faulty variant: no result is recorded for a child that failed
ChildFailsNoResult ==
    /\ pc = "child"
    /\ \E o \in Outcomes :
         echoed' = Append(echoed, <<"Error executing", files[idx], o>>)
    /\ child' = NoChild
    /\ idx' = idx + 1
    /\ pc' = "loop"
    /\ UNCHANGED <<entry, files, commands, dry_run, yes, report, plan, results,
                   spawned, tempFiles, tempCreated, prompts, raised, message, remoteVars,
                   report_content>>

\* faulty variant: a file whose child failed is run a second time
ChildFailsRetried ==
    /\ pc = "child"
    /\ \E o \in Outcomes :
         echoed' = Append(echoed, <<"Error executing", files[idx], o>>)
    /\ child' = NoChild
    /\ pc' = "loop"
    /\ IF Cardinality({ n \in 1..Len(spawned) : spawned[n].file = idx }) < 2
       THEN UNCHANGED <<idx, results>>
       ELSE /\ idx' = idx + 1
            /\ results' = Append(results, <<FullCommand(plan.items[idx], files[idx]), 0>>)
    /\ UNCHANGED <<entry, files, commands, dry_run, yes, report, plan,
                   spawned, tempFiles, tempCreated, prompts, raised, message, remoteVars,
                   report_content>>

\* lines 357, 360-363, 388: the child exits non-zero (CalledProcessError) or
\* is killed at the timeout (TimeoutExpired); os.remove is not reached
ChildFails ==
    /\ pc = "child"
    /\ \E o \in Outcomes :
         echoed' = Append(echoed, <<"Error executing", files[idx], o>>)
    /\ results' = Append(results, <<FullCommand(plan.items[idx], files[idx]), 0>>)
    /\ child' = NoChild
    /\ idx' = idx + 1
    /\ pc' = "loop"
    /\ UNCHANGED <<entry, files, commands, dry_run, yes, report, plan,
                   spawned, tempFiles, tempCreated, prompts, raised, message, remoteVars,
                   report_content>>

\* line 389, and for exec lines 649-651
ExecuteFilesReturn ==
    /\ pc = "loop"
    /\ idx > ZipLen
    /\ pc' = (IF entry = "exec" THEN "done" ELSE "returned")
    /\ report_content' = (IF entry = "exec" /\ report
                          THEN GenerateExecutionReport(results)
                          ELSE report_content)
    /\ echoed' = (IF entry = "exec" /\ report
                  THEN Append(echoed, <<"Execution Report:", GenerateExecutionReport(results)>>)
                  ELSE echoed)
    /\ UNCHANGED <<entry, files, commands, dry_run, yes, report, plan, idx, results,
                   child, spawned, tempFiles, tempCreated, prompts, raised, message, remoteVars>>

----------------------------------------------------------------------------

Next ==
    \/ CommandValidateArgs
    \/ CommandGetToken
    \/ FetchRequest
    \/ FetchScan
    \/ ExecCompareHash
    \/ ExecGetFiles
    \/ HashCommand
    \/ PrintCommand
    \/ CompareHashCall
    \/ MappingLookup
    \/ GenerateExecutionReportCall
    \/ GetGithubTokenFromEnvCall
    \/ ValidateUsernameGistnamePairCall
    \/ ValidateUsernameCall
    \/ ValidateCommandsCall
    \/ ExecPlan
    \/ ExecNoFiles
    \/ ExecConfirm
    \/ ExecDryRun
    \/ ExecRun
    \/ SkipFile
    \/ ExecuteFileDryRun
    \/ ExecuteFileSpawn
    \/ ChildSucceeds
    \/ ChildFails
    \/ ExecuteFilesReturn

Spec == Init /\ [][Next]_vars

\* Every entry point runs on its own thread of control until it returns or
\* raises: a step that can be taken is eventually taken.
\* fetch_gist called on its own
FetchInit == Init /\ entry = "fetch_gist"
FetchNext == FetchRequest \/ FetchScan
FetchSpec == FetchInit /\ [][FetchNext]_vars /\ WF_vars(FetchNext)

----------------------------------------------------------------------------
(* Properties *)

Range(s) == { s[k] : k \in 1..Len(s) }

NumFiles == Len(files)
NumCommands == Len(commands.items)

\* validate_commands has been called and has returned or raised
ValidateDone ==
    \/ entry = "validate_commands" /\ pc # "validate"
    \/ /\ entry = "exec"
       /\ \/ pc \in {"planned", "confirmed", "aborted", "loop", "child", "crashed"}
          \/ pc = "done" /\ raised = "none"
          \/ pc = "done" /\ message = ValidateCommandsMessage("ValueError")

\* validate_commands has returned a value
ValidateReturned == ValidateDone /\ raised \notin {"ValueError", "TypeError"}

\* execute_files has returned
ExecuteFilesReturned ==
    /\ entry \in {"exec", "execute_files"}
    /\ pc \in {"done", "returned"}
    /\ idx > ZipLen

\* the child of the file at position k failed or timed out
FailedAt(k) == \E o \in Outcomes : <<"Error executing", files[k], o>> \in Range(echoed)

SpawnsFor(k) == { n \in 1..Len(spawned) : spawned[n].file = k }

\* "skip" spelled in any letter case, written out letter by letter
SpelledSkip(command) ==
    /\ Len(command) = 4
    /\ command[1] \in {"s", "S"}
    /\ command[2] \in {"k", "K"}
    /\ command[3] \in {"i", "I"}
    /\ command[4] \in {"p", "P"}

\* C1: when the commands and the files differ in number (M > 0) and the
\* user declines the prompt of validate_commands, it raises ValueError and
\* nothing is executed: no child process, no temporary file, no result, and
\* exec ends after printing the error.
C1_DeclineRaisesAndNothingRuns ==
    MismatchPrompt(FALSE) \in Range(prompts) =>
        /\ NumCommands > 0 /\ NumCommands # NumFiles
        /\ raised = "ValueError"
        /\ pc = (IF entry = "exec" THEN "done" ELSE "raised")
        /\ spawned = <<>> /\ tempCreated = 0 /\ results = <<>>
        /\ entry = "exec" =>
             echoed[Len(echoed)] = <<"Error: Aborted due to command mismatch.">>

C1_Witness ==
    /\ entry = "exec"
    /\ pc = "done"
    /\ NumFiles = 2 /\ NumCommands = 1
    /\ ~IsSkip(commands.items[1])
    /\ ~dry_run
    /\ prompts = <<MismatchPrompt(FALSE)>>

\* C2 (as stated): when the commands and the files differ in number (M > 0)
\* and the user confirms, validate_commands returns the first min(M, N)
\* commands followed by N - min(M, N) copies of "skip", for the tuple exec
\* passes in as well as for a list.
C2_ConfirmedPlanIsTruncatedOrPadded ==
    MismatchPrompt(TRUE) \in Range(prompts) =>
        /\ raised \notin {"ValueError", "TypeError"}
        /\ Len(plan.items) = NumFiles
        /\ \A k \in 1..NumFiles :
             plan.items[k] = (IF k <= NumCommands THEN commands.items[k] ELSE SKIP)

\* C3: whenever validate_commands returns, the list it returns is as long
\* as the file list.
C3_ReturnedPlanHasOnePerFile ==
    ValidateReturned => Len(plan.items) = NumFiles

C3_Witness ==
    /\ entry = "validate_commands"
    /\ pc = "returned"
    /\ NumCommands = 2 /\ NumFiles = 1
    /\ prompts = <<MismatchPrompt(TRUE)>>

\* C4: with as many commands as files (N > 0), validate_commands returns
\* its input unchanged and does not ask for confirmation.
C4_EqualCountsReturnInput ==
    (ValidateDone /\ NumCommands = NumFiles /\ NumFiles > 0) =>
        /\ raised \notin {"ValueError", "TypeError"}
        /\ plan = commands
        /\ \A a \in BOOLEAN : MismatchPrompt(a) \notin Range(prompts)

C4_Witness ==
    /\ entry = "validate_commands"
    /\ pc = "returned"
    /\ NumCommands = 2 /\ NumFiles = 2
    /\ commands.items[1] # commands.items[2]

\* C5: with an empty command list, validate_commands returns exactly one
\* "skip" per file and does not ask for confirmation.
C5_NoCommandsAllSkip ==
    (entry = "validate_commands" /\ ValidateDone /\ NumCommands = 0) =>
        /\ pc = "returned"
        /\ plan.type = "list"
        /\ Len(plan.items) = NumFiles
        /\ \A k \in 1..NumFiles : plan.items[k] = <<"s", "k", "i", "p">>
        /\ prompts = <<>>

C5_Witness ==
    /\ entry = "validate_commands"
    /\ pc = "returned"
    /\ NumCommands = 0 /\ NumFiles = 2

\* C6: when the child of the file at position i exits non-zero or times
\* out, nothing is raised, the failure is echoed, the result at position i
\* is ("<command> <filename>", 0.0), the loop goes on, and once
\* execute_files has returned every later position has been processed by
\* its own command.
C6_FailureDoesNotStopTheBatch ==
    \A i \in 1..NumFiles :
        FailedAt(i) =>
            /\ raised = "none"
            /\ pc \in {"loop", "child", "done", "returned"}
            /\ pc \in {"loop", "child"} => ENABLED Next
            /\ i < idx
            /\ results[i] = <<plan.items[i] \o <<" ">> \o files[i], 0>>
            /\ ExecuteFilesReturned =>
                 /\ Len(results) = ZipLen
                 /\ \A j \in (i + 1)..ZipLen :
                      IF SpelledSkip(plan.items[j])
                      THEN /\ SpawnsFor(j) = {}
                           /\ results[j][1] = SkippedLabel(files[j])
                      ELSE /\ \E n \in SpawnsFor(j) : spawned[n].command = plan.items[j]
                           /\ results[j][1] = plan.items[j] \o <<" ">> \o files[j]

C6_Witness ==
    /\ ExecuteFilesReturned
    /\ NumFiles = 2
    /\ FailedAt(1)
    /\ ~FailedAt(2)
    /\ SpawnsFor(2) # {}
    /\ results[2][2] > 0

\* C7 (as stated): outside a running child no temporary file created by
\* execute_file exists, whatever the outcome of the child was.
C7_TemporaryFilesAreRemoved ==
    pc # "child" => tempFiles = {}

\* C8: in dry-run mode no child process is spawned and no temporary file
\* is created, in execute_files and in exec alike.
C8_DryRunSpawnsNothing ==
    dry_run => /\ spawned = <<>>
               /\ child = NoChild
               /\ tempCreated = 0
               /\ tempFiles = {}

C8_Witness ==
    /\ dry_run
    /\ entry = "execute_files"
    /\ pc = "returned"
    /\ ZipLen = 2
    /\ \A k \in 1..2 : ~SpelledSkip(plan.items[k])
    /\ Len(results) = 2

\* C9 (as stated): in dry-run mode, once the run is over, every planned
\* item whose command is not the skip marker has the result
\* ("<command> <filename>", 0.0), in exec --dry-run as in execute_files.
C9_DryRunRecordsEveryItem ==
    (dry_run /\ entry \in {"exec", "execute_files"} /\ pc \in {"done", "returned"}
       /\ raised = "none") =>
        \A k \in 1..ZipLen :
            ~SpelledSkip(plan.items[k]) =>
                /\ k <= Len(results)
                /\ results[k] = <<plan.items[k] \o <<" ">> \o files[k], 0>>

\* C9 (amended): execute_files called with dry_run set records
\* ("<command> <filename>", 0.0) for every planned item whose command is
\* not the skip marker; exec --dry-run does not call execute_files, so it
\* records no result and echoes no report.
C9_DryRunRecordsInExecuteFilesOnly ==
    /\ (dry_run /\ entry = "execute_files" /\ pc = "returned") =>
          \A k \in 1..ZipLen :
              ~SpelledSkip(plan.items[k]) =>
                  /\ k <= Len(results)
                  /\ results[k] = <<plan.items[k] \o <<" ">> \o files[k], 0>>
    /\ (dry_run /\ entry = "exec") =>
          /\ results = <<>>
          /\ pc \notin {"loop", "child"}
          /\ \A m \in Range(echoed) : m[1] # "Execution Report:"

C9_Witness ==
    /\ dry_run
    /\ entry = "execute_files"
    /\ pc = "returned"
    /\ ZipLen = 2
    /\ ~SpelledSkip(plan.items[1])
    /\ SpelledSkip(plan.items[2])
    /\ results[1] = <<Py_python \o <<" ">> \o files[1], 0>>

\* C10: a planned item whose command is "skip" in any letter case never
\* gets a child process or a temporary file, and once the loop has passed
\* it its result is exactly ("Skipped <filename>", 0.0), with and without
\* dry_run.
C10_SkipInAnyCaseIsNotExecuted ==
    (entry \in {"exec", "execute_files"} /\ pc \in {"loop", "child", "done", "returned"}) =>
        /\ Len(spawned) = tempCreated
        /\ ExecuteFilesReturned /\ entry = "execute_files" => Len(results) = ZipLen
        /\ \A k \in 1..ZipLen :
             SpelledSkip(plan.items[k]) =>
                 /\ SpawnsFor(k) = {}
                 /\ child.file # k
                 /\ k < idx /\ pc \in {"loop", "child", "returned"} =>
                      results[k] = <<(<<"S", "k", "i", "p", "p", "e", "d", " ">> \o files[k]), 0>>

C10_Witness ==
    /\ entry = "execute_files"
    /\ pc = "returned"
    /\ ~dry_run
    /\ ZipLen = 2
    /\ plan.items[1] = <<"S", "k", "I", "P">>
    /\ ~SpelledSkip(plan.items[2])
    /\ Len(spawned) = 1
    /\ results[1] = <<(<<"S", "k", "i", "p", "p", "e", "d", " ">> \o files[1]), 0>>

\* children that have been started and whose result is not yet recorded
Running == { n \in 1..Len(spawned) : Len(results) < spawned[n].file }

\* C11: the children are started in list order, one at a time: a child is
\* started only when every child started before it has exited, failed or
\* timed out, and never more than one child is running.
C11_OneChildAtATimeInOrder ==
    /\ Cardinality(Running) <= 1
    /\ \A n \in 1..(Len(spawned) - 1) : spawned[n].file < spawned[n + 1].file
    /\ Running # {} => /\ pc = "child"
                       /\ Running = {Len(spawned)}
                       /\ child.file = spawned[Len(spawned)].file
    /\ Running = {} => child = NoChild

C11_Witness ==
    /\ Len(spawned) = 2
    /\ Running = {2}
    /\ FailedAt(1)
    /\ Len(results) = 1

\* no gist of the owner has the description asked for
NoGistMatches == \A k \in 1..Len(remote) : remote[k].description # gist_name

\* C12 (as stated): when the owner has gists but none with the description
\* asked for, fetch_gist ends, with "Gist not found" unless a request fails.
C12_FetchGistTerminates ==
    (entry = "fetch_gist" /\ Len(remote) > 0 /\ NoGistMatches) => <>(pc = "raised")

\* C13 (as stated): the gist fetch_gist returns is the first gist of the
\* owner, in page and listing order, whose description equals the name
\* when both are compared in lowercase.
C13_FirstMatchIgnoringCase ==
    (entry = "fetch_gist" /\ pc = "returned") =>
        \E k \in 1..Len(remote) :
            /\ remote[k] = gist
            /\ Lower(remote[k].description) = Lower(gist_name)
            /\ \A j \in 1..(k - 1) : Lower(remote[j].description) # Lower(gist_name)

\* C13 (amended): the gist fetch_gist returns is the first gist of the
\* owner, in page and listing order, whose description is equal to the
\* name, letter case included.
C13_FirstExactMatch ==
    gist # NoGist =>
        \E k \in 1..Len(remote) :
            /\ remote[k] = gist
            /\ remote[k].description = gist_name
            /\ \A j \in 1..(k - 1) : remote[j].description # gist_name

C13_Witness ==
    /\ entry = "fetch_gist"
    /\ pc = "returned"
    /\ gist_name = <<"g">>
    /\ Len(remote) = 2
    /\ remote[1].description = <<"G">>
    /\ gist = remote[2]

\* C14: in exec with --hash, a digest that differs from the expected one
\* ends the command before anything else happens: the mismatch is echoed
\* as an error, no prompt is shown, no file is fetched for execution and
\* nothing is executed.
C14_HashMismatchStopsExec ==
    (entry = "exec" /\ hash # NoHash /\ actualHash # hash) =>
        \/ pc \in {"start", "token", "fetch", "scan", "hash"}
        \/ raised # "none" /\ pc = "done" /\ actualHash = NoHash
        \/ /\ pc = "done"
           /\ raised = "ValueError"
           /\ message = <<"Hash mismatch.", hash, actualHash>>
           /\ echoed[Len(echoed)] = <<"Error:", message>>
           /\ prompts = <<>>
           /\ contents = <<>>
           /\ spawned = <<>> /\ results = <<>> /\ tempCreated = 0

C14_Witness ==
    /\ entry = "exec"
    /\ pc = "done"
    /\ yes /\ ~dry_run
    /\ NumFiles = 2 /\ NumCommands = 2
    /\ hash = <<"hexdigest", "sha256", <<120, 121>>>>
    /\ actualHash = <<"hexdigest", "sha256", <<97, 97>>>>

\* the bytes of the contents cs laid end to end, from the last file back
RECURSIVE BytesOf(_, _)
BytesOf(cs, n) ==
    IF n = 0 THEN <<>>
    ELSE BytesOf(cs, n - 1) \o [k \in 1..Len(cs[n]) |-> ByteOf(cs[n][k])]

\* C15 (as stated): hash_gist returns the digest of the contents laid end
\* to end in list order, so that swapping two files with different contents
\* changes the result, and no files give the digest of no bytes.
C15_SwapChangesDigest ==
    actualHash # NoHash =>
        /\ actualHash = <<"hexdigest", hash_func, BytesOf(hashed, Len(hashed))>>
        /\ (Len(hashed) = 2 /\ hashed[1] # hashed[2]) =>
              HashGist(<<hashed[2], hashed[1]>>, hash_func).digest # actualHash

\* C15 (amended): hash_gist returns the digest, under the selected
\* algorithm, of the contents laid end to end in list order with no
\* separator; no files give the digest of no bytes; swapping two files
\* leaves the result as it is whenever the two concatenations are the same
\* bytes, different contents or not, and changes it otherwise.
C15_DigestOfConcatenation ==
    actualHash # NoHash =>
        /\ hash_func \in SupportedHashFuncs
        /\ actualHash = <<"hexdigest", hash_func, BytesOf(hashed, Len(hashed))>>
        /\ Len(hashed) = 0 => actualHash = <<"hexdigest", hash_func, <<>>>>
        /\ Len(hashed) = 2 =>
              ((HashGist(<<hashed[2], hashed[1]>>, hash_func).digest = actualHash)
                 <=> (hashed[1] \o hashed[2] = hashed[2] \o hashed[1]))

C15_Witness ==
    /\ entry = "compare_hash"
    /\ hash_func = "md5"
    /\ hashed = << <<"x">>, <<"a", "a">> >>
    /\ actualHash = <<"hexdigest", "md5", <<120, 97, 97>>>>

\* C16: compare_hash raises ValueError, with a message that names the
\* expected and the actual digest, exactly when the digest of hash_gist
\* differs from the expected one, and returns when they are equal.
C16_CompareHashRaisesIffDifferent ==
    (entry = "compare_hash" /\ pc # "compare" /\ actualHash # NoHash) =>
        /\ actualHash # hash =>
              /\ pc = "raised"
              /\ raised = "ValueError"
              /\ message = <<"Hash mismatch.", hash, actualHash>>
        /\ actualHash = hash =>
              /\ pc = "returned"
              /\ raised = "none"

C16_Witness ==
    /\ entry = "compare_hash"
    /\ pc = "raised"
    /\ NumFiles = 1
    /\ hash_func = "sha256"
    /\ hash = <<"hexdigest", "sha256", <<120>>>>
    /\ actualHash = <<"hexdigest", "sha256", <<97>>>>

ProceedPrompts == { n \in 1..Len(prompts) : prompts[n].prompt = ProceedPrompt(TRUE).prompt }

\* execute_files has been called
ExecutionStarted ==
    \/ pc \in {"loop", "child"}
    \/ spawned # <<>>
    \/ results # <<>>
    \/ pc = "done" /\ raised = "none"

\* C17: in exec with files, without --dry-run and without -y, the planned
\* commands are listed and the user is asked once whether to proceed,
\* before anything is executed; the files are executed when the answer is
\* yes and nothing is executed when it is no.
C17_ConfirmedOnceBeforeExecution ==
    (entry = "exec" /\ NumFiles > 0 /\ ~dry_run /\ ~yes) =>
        /\ Cardinality(ProceedPrompts) <= 1
        /\ pc = "planned" => ProceedPrompts = {}
        /\ pc = "confirmed" => /\ prompts[Len(prompts)] = ProceedPrompt(TRUE)
                               /\ ENABLED ExecRun
        /\ ExecutionStarted =>
              /\ prompts = <<ProceedPrompt(TRUE)>>
              /\ <<"The following commands will be executed:">> \in Range(echoed)
              /\ \A k \in 1..NumFiles :
                    <<"  ", plan.items[k] \o <<" ">> \o files[k]>> \in Range(echoed)
        /\ ProceedPrompt(FALSE) \in Range(prompts) =>
              /\ pc = "aborted"
              /\ spawned = <<>> /\ results = <<>> /\ tempCreated = 0

C17_Witness ==
    /\ entry = "exec"
    /\ pc = "done"
    /\ ~dry_run /\ ~yes
    /\ NumFiles = 2
    /\ prompts = <<ProceedPrompt(TRUE)>>
    /\ Len(spawned) = 2
    /\ Len(results) = 2

\* C18 (as stated): exec invoked with -y never asks for confirmation,
\* whatever the number of files and of --run commands.
C18_YesNeverPrompts ==
    (entry = "exec" /\ yes) => prompts = <<>>

ValidationMessages ==
    { "Invalid format for username_gistname_pair",
      "Neither username nor gist name can be empty.",
      "Invalid GitHub username format",
      "GitHub username too long (maximum 39 characters)",
      "Invalid gist name format" }

\* C19: in exec, hash and print, a validation failure, a gist that is not
\* found and a hash mismatch are caught by the command: the message is
\* echoed as an error, the command ends, and nothing is executed.
C19_ErrorsCaughtAtCommandBoundary ==
    (entry \in {"exec", "hash", "print"}
       /\ message # <<>>
       /\ message[1] \in ValidationMessages \cup {"Gist not found", "Hash mismatch."}) =>
        /\ raised = "ValueError"
        /\ pc = "done"
        /\ echoed[Len(echoed)] = <<"Error:", message>>
        /\ prompts = <<>>
        /\ spawned = <<>> /\ results = <<>> /\ tempCreated = 0

C19_Witness ==
    /\ entry = "hash"
    /\ pc = "done"
    /\ message = <<"Gist not found", <<"o">>, <<"g">>>>
    /\ echoed = << <<"Error:", message>> >>

\* C20: two extensions that differ only in letter case yield the same
\* command when looked up with mapping[ext]; ".PY", ".Py" and ".py" all
\* yield "python".
C20_LookupIgnoresCase ==
    (entry = "execute_mapping" /\ pc = "returned") =>
        /\ \A e \in Extensions : Lower(e) = Lower(ext) => MappingGetItem(e) = lookup
        /\ Lower(ext) = <<".", "p", "y">> => lookup = <<"p", "y", "t", "h", "o", "n">>

C20_Witness ==
    /\ entry = "execute_mapping"
    /\ pc = "returned"
    /\ ext = <<".", "P", "y">>
    /\ lookup = <<"p", "y", "t", "h", "o", "n">>

\* the lines of a text, as text.split("\n") gives them
RECURSIVE SplitLines(_)
SplitLines(t) ==
    IF \E k \in 1..Len(t) : t[k] = "\n"
    THEN LET i == CHOOSE k \in 1..Len(t) : t[k] = "\n" /\ \A j \in 1..(k - 1) : t[j] # "\n"
         IN  <<SubSeq(t, 1, i - 1)>> \o SplitLines(SubSeq(t, i + 1, Len(t)))
    ELSE <<t>>

\* the number written by a sequence of decimal digits
RECURSIVE ParseNat(_)
ParseNat(t) ==
    IF Len(t) = 0 THEN 0
    ELSE 10 * ParseNat(SubSeq(t, 1, Len(t) - 1)) +
         (CHOOSE d \in 0..9 : DigitChars[d + 1] = t[Len(t)])

\* t writes, with two decimals, the hundredth nearest to ms milliseconds
IsTwoDecimalsOf(t, ms) ==
    /\ Len(t) >= 4
    /\ t[Len(t) - 2] = "."
    /\ \A k \in (1..Len(t)) \ {Len(t) - 2} : \E d \in 1..10 : DigitChars[d] = t[k]
    /\ Len(t) > 4 => t[1] # "0"
    /\ LET hundredths == ParseNat(SubSeq(t, 1, Len(t) - 3) \o SubSeq(t, Len(t) - 1, Len(t)))
       IN  /\ 10 * hundredths - ms <= 5
           /\ ms - 10 * hundredths <= 5

\* line is prefix, then something, then suffix
HasAffixes(line, prefix, suffix) ==
    /\ Len(line) >= Len(prefix) + Len(suffix)
    /\ SubSeq(line, 1, Len(prefix)) = prefix
    /\ SubSeq(line, Len(line) - Len(suffix) + 1, Len(line)) = suffix

Between(line, prefix, suffix) == SubSeq(line, Len(prefix) + 1, Len(line) - Len(suffix))

\* the elapsed times of the first n results, added up
RECURSIVE TotalOf(_, _)
TotalOf(rs, n) == IF n = 0 THEN 0 ELSE rs[n][2] + TotalOf(rs, n - 1)

\* generate_execution_report has returned a report for `results`
ReportMade ==
    \/ entry = "generate_execution_report" /\ pc = "returned"
    \/ entry = "exec" /\ report /\ pc = "done" /\ report_content # <<>>

\* C21: the report is the line "Execution Report:", then for each result in
\* order the lines "- Command: <label>" and "  Execution Time: <t> seconds"
\* with t to two decimals, then an empty line and the line "Total Execution
\* Time: <T> seconds", with no newline at the end; for no results it is
\* "Execution Report:", an empty line and "Total Execution Time: 0.00 seconds".
C21_ReportLayout ==
    ReportMade =>
        LET L == SplitLines(report_content)
            N == Len(results)
        IN  /\ Len(L) = 2 * N + 3
            /\ L[1] = <<"E", "x", "e", "c", "u", "t", "i", "o", "n", " ", "R", "e", "p", "o", "r", "t", ":">>
            /\ \A k \in 1..N :
                 /\ L[2 * k] = <<"-", " ", "C", "o", "m", "m", "a", "n", "d", ":", " ">> \o results[k][1]
                 /\ HasAffixes(L[2 * k + 1], <<" ", " ", "E", "x", "e", "c", "u", "t", "i", "o", "n", " ", "T", "i", "m", "e", ":", " ">>, <<" ", "s", "e", "c", "o", "n", "d", "s">>)
                 /\ IsTwoDecimalsOf(Between(L[2 * k + 1], TimePrefix, SecondsSuffix),
                                    results[k][2])
            /\ L[2 * N + 2] = <<>>
            /\ HasAffixes(L[2 * N + 3], <<"T", "o", "t", "a", "l", " ", "E", "x", "e", "c", "u", "t", "i", "o", "n", " ", "T", "i", "m", "e", ":", " ">>, <<" ", "s", "e", "c", "o", "n", "d", "s">>)
            /\ report_content[Len(report_content)] # "\n"
            /\ echoed # <<>> => echoed[Len(echoed)] = <<"Execution Report:", report_content>>
            /\ N = 0 => report_content =
                 <<"E", "x", "e", "c", "u", "t", "i", "o", "n", " ", "R", "e", "p", "o",
                 "r", "t", ":", "\n", "\n", "T", "o", "t", "a", "l", " ", "E", "x",
                 "e", "c", "u", "t", "i", "o", "n", " ", "T", "i", "m", "e", ":", " ",
                 "0", ".", "0", "0", " ", "s", "e", "c", "o", "n", "d", "s">>

C21_Witness ==
    /\ entry = "generate_execution_report"
    /\ pc = "returned"
    /\ Len(results) = 2
    /\ results[1][2] = 1230
    /\ results[2][2] = 0
    /\ report_content =
         <<"E", "x", "e", "c", "u", "t", "i", "o", "n", " ", "R", "e", "p", "o",
         "r", "t", ":", "\n", "-", " ", "C", "o", "m", "m", "a", "n", "d",
         ":", " ", "p", "y", "t", "h", "o", "n", " ", "a", ".", "p", "y",
         "\n", " ", " ", "E", "x", "e", "c", "u", "t", "i", "o", "n", " ",
         "T", "i", "m", "e", ":", " ", "1", ".", "2", "3", " ", "s", "e", "c",
         "o", "n", "d", "s", "\n", "-", " ", "C", "o", "m", "m", "a", "n",
         "d", ":", " ", "S", "k", "i", "p", "p", "e", "d", " ", "a", ".", "p",
         "y", "\n", " ", " ", "E", "x", "e", "c", "u", "t", "i", "o", "n",
         " ", "T", "i", "m", "e", ":", " ", "0", ".", "0", "0", " ", "s", "e",
         "c", "o", "n", "d", "s", "\n", "\n", "T", "o", "t", "a", "l", " ",
         "E", "x", "e", "c", "u", "t", "i", "o", "n", " ", "T", "i", "m", "e",
         ":", " ", "1", ".", "2", "3", " ", "s", "e", "c", "o", "n", "d", "s">>

\* C22: the total in the last line of the report is the sum of the elapsed
\* times of all the results, to two decimals, a skipped or failed item
\* adding 0: times 1.23 and 0.45 give "Total Execution Time: 1.68 seconds".
C22_TotalIsSumOfTimes ==
    ReportMade =>
        LET L == SplitLines(report_content)
            last == L[Len(L)]
        IN  /\ HasAffixes(last, TotalPrefix, SecondsSuffix)
            /\ IsTwoDecimalsOf(Between(last, TotalPrefix, SecondsSuffix),
                               TotalOf(results, Len(results)))
            /\ entry = "exec" =>
                 \A k \in 1..Len(results) :
                     (SpelledSkip(plan.items[k]) \/ FailedAt(k)) => results[k][2] = 0
            /\ (Len(results) = 2 /\ results[1][2] = 1230 /\ results[2][2] = 450) =>
                 last = <<"T", "o", "t", "a", "l", " ", "E", "x", "e", "c", "u", "t", "i", "o",
                 "n", " ", "T", "i", "m", "e", ":", " ", "1", ".", "6", "8", " ", "s",
                 "e", "c", "o", "n", "d", "s">>

C22_Witness ==
    /\ entry = "exec"
    /\ pc = "done"
    /\ report
    /\ Len(results) = 2
    /\ results[1][2] = 1230
    /\ results[2][2] = 450
    /\ LET L == SplitLines(report_content)
       IN  L[Len(L)] = <<"T", "o", "t", "a", "l", " ", "E", "x", "e", "c", "u", "t", "i", "o",
                 "n", " ", "T", "i", "m", "e", ":", " ", "1", ".", "6", "8", " ", "s",
                 "e", "c", "o", "n", "d", "s">>

\* a value that counts as a token: set and not empty
IsToken(v) == v \notin {"None", ""}

\* the token the precedence rule selects
ExpectedToken ==
    IF IsToken(token_arg) THEN token_arg
    ELSE IF IsToken(environ.GH_TOKEN) THEN environ.GH_TOKEN
    ELSE IF IsToken(environ.GITHUB_TOKEN) THEN environ.GITHUB_TOKEN
    ELSE ""

\* C23: the token sent with the requests of a command is --token when it is
\* given, otherwise the value of the first of GH_TOKEN and GITHUB_TOKEN that
\* is set and not empty, otherwise the empty string; and
\* get_github_token_from_env returns the second of these.
C23_TokenPrecedence ==
    /\ entry \in {"exec", "hash", "print"} =>
          /\ token = ExpectedToken
          /\ \A r \in requests : r[1] = "GET /users/{username}/gists" => r[3] = ExpectedToken
    /\ (entry = "get_github_token_from_env" /\ pc = "returned") => token = ExpectedToken

C23_Witness ==
    /\ entry = "exec"
    /\ token_arg = "None"
    /\ environ.GH_TOKEN = ""
    /\ environ.GITHUB_TOKEN = "h"
    /\ <<"GET /users/{username}/gists", <<"o">>, "h">> \in requests

\* the string has exactly one "/" and something on each side of it
PairShape(t) ==
    /\ Cardinality({ k \in 1..Len(t) : t[k] = "/" }) = 1
    /\ t[1] # "/"
    /\ t[Len(t)] # "/"

\* C24: validate_username_gistname_pair returns exactly for the strings
\* with one "/" and a non-empty part on each side, the two parts it returns
\* joined by "/" being the string; for every other string it raises
\* ValueError.
C24_PairAcceptedIffOneSlash ==
    (entry = "validate_username_gistname_pair" /\ pc # "call") =>
        /\ pc = "returned" <=> (Len(arg) > 0 /\ PairShape(arg))
        /\ pc = "returned" =>
              /\ raised = "none"
              /\ Len(username) > 0 /\ Len(gist_name) > 0
              /\ username \o <<"/">> \o gist_name = arg
        /\ pc # "returned" =>
              /\ pc = "raised"
              /\ raised = "ValueError"
              /\ message[1] \in {"Invalid format for username_gistname_pair",
                                 "Neither username nor gist name can be empty."}

C24_Witness ==
    /\ entry = "validate_username_gistname_pair"
    /\ pc = "returned"
    /\ arg = <<"o", "-", "b", "/", "g", ".", "p", "y">>
    /\ username = <<"o", "-", "b">>
    /\ gist_name = <<"g", ".", "p", "y">>

\* C25 (as stated): validate_username raises ValueError for the empty
\* string, for a name of more than 39 characters, for a name with a
\* character that is not a letter, a digit, "-" or "_", and for a name that
\* does not start and end with a letter or a digit; it accepts every other
\* name.
C25_UsernameRule ==
    (entry = "validate_username" /\ pc # "call") =>
        ((pc = "raised" /\ raised = "ValueError")
           <=> \/ Len(username) = 0
               \/ Len(username) > 39
               \/ \E k \in 1..Len(username) :
                     ~(IsAlnum(username[k]) \/ username[k] \in {"-", "_"})
               \/ ~IsAlnum(username[1])
               \/ ~IsAlnum(username[Len(username)]))

\* C26 (as stated): exec without --run plans, for each file, the launcher
\* mapping's command for the extension of the file in lowercase, and "skip"
\* when the mapping has none or the file has no extension.
C26_DerivedPlanIgnoresCase ==
    (entry = "exec" /\ NumCommands = 0 /\ ValidateReturned) =>
        /\ Len(plan.items) = NumFiles
        /\ \A k \in 1..NumFiles :
              plan.items[k] =
                  (IF HasKey(Lower(SplitExt(files[k])))
                   THEN MappingGet(Lower(SplitExt(files[k])), <<>>)
                   ELSE <<"s", "k", "i", "p">>)

\* execute_files was called and has returned
ExecuteFilesCompleted ==
    \/ entry = "execute_files" /\ pc = "returned"
    \/ entry = "exec" /\ pc = "done" /\ raised = "none" /\ NumFiles > 0 /\ ~dry_run

\* the result at position i is about the file at position i
ResultConcerns(i) ==
    \/ results[i][1] = <<"S", "k", "i", "p", "p", "e", "d", " ">> \o files[i]
    \/ results[i][1] = plan.items[i] \o <<" ">> \o files[i]

\* C27: for a plan with as many commands as there are files, execute_files
\* returns one result per file, the result at position i being labelled
\* "Skipped <filename_i>" or "<command_i> <filename_i>", whether the items
\* are skipped, succeed, fail or time out.
C27_OneResultPerFileInOrder ==
    (entry \in {"exec", "execute_files"} /\ Len(plan.items) = NumFiles) =>
        /\ Len(results) <= NumFiles
        /\ \A i \in 1..Len(results) : ResultConcerns(i)
        /\ pc = "loop" => Len(results) = idx - 1
        /\ ExecuteFilesCompleted => Len(results) = NumFiles

C27_Witness ==
    /\ entry = "execute_files"
    /\ pc = "returned"
    /\ ~dry_run
    /\ NumFiles = 2 /\ Len(plan.items) = 2
    /\ FailedAt(1)
    /\ SpelledSkip(plan.items[2])
    /\ Len(results) = 2

\* C28: in one run at most one child is spawned for each planned file: a
\* file whose child failed or timed out is not run again.
C28_AtMostOneSpawnPerFile ==
    /\ Len(spawned) = tempCreated
    /\ \A k \in 1..NumFiles :
          /\ Cardinality(SpawnsFor(k)) <= 1
          /\ FailedAt(k) => /\ Cardinality(SpawnsFor(k)) = 1
                            /\ k < idx
                            /\ child.file # k

C28_Witness ==
    /\ ExecuteFilesCompleted
    /\ NumFiles = 2
    /\ FailedAt(1)
    /\ FailedAt(2)
    /\ Len(spawned) = 2

\* C29 (as stated): when exec was given --hash and executes files, every
\* file it executes has the content over which the verified digest was
\* computed.
C29_ExecutedContentIsVerifiedContent ==
    (entry = "exec" /\ hash # NoHash) =>
        \A n \in 1..Len(spawned) :
            contents[spawned[n].file] = hashed[spawned[n].file]

\* the argument of a command is rejected by one of the three validators
ArgumentInvalid ==
    /\ arg # <<>>
    /\ \/ ~PairShape(arg)
       \/ ValidateUsername(SplitPair(arg)[1]).raised # "none"
       \/ ValidateGistName(SplitPair(arg)[2]).raised # "none"

\* C30: in exec, hash and print, an argument whose pair, user name or gist
\* name is invalid ends the command with the validation error before any
\* remote call: no request is sent, nothing is fetched, hashed or executed.
C30_ValidationBeforeRemoteCalls ==
    (entry \in {"exec", "hash", "print"} /\ ArgumentInvalid) =>
        /\ pc = "done"
        /\ raised = "ValueError"
        /\ message[1] \in ValidationMessages
        /\ requests = {}
        /\ gists = <<>> /\ gist = NoGist
        /\ hashed = <<>> /\ contents = <<>> /\ actualHash = NoHash
        /\ spawned = <<>> /\ results = <<>> /\ tempCreated = 0

C30_Witness ==
    /\ entry = "print"
    /\ pc = "done"
    /\ arg = <<"-", "o", "/", "g">>
    /\ message[1] = "Invalid GitHub username format"
    /\ requests = {}

====
